---- MODULE Spec2Model ----
(***************************************************************************)
(* The two notebooks of nilearn-PFC-Workshop as a statement-level state    *)
(* machine.  A notebook is a sequence of statements (the code cells, top   *)
(* to bottom); a run executes them in order and stops at the first         *)
(* statement that raises an uncaught exception.                            *)
(*                                                                         *)
(* nilearn, scikit-learn, numpy and matplotlib are not part of the         *)
(* repository.  A call into them is modelled by what the notebooks' own    *)
(* text documents of it (array shapes, stratified splitting, accuracy),    *)
(* every such call may also raise, and what the libraries draw at random   *)
(* (the shuffle of a split, the predictions of a classifier) is a          *)
(* nondeterministic choice.                                                *)
(***************************************************************************)
EXTENDS Integers, Sequences, FiniteSets, TLC

VARIABLES
    nb,           \* the notebook being run: "intro" or "classification"
    dataset,      \* what fetch_development_fmri returns: the table and file lists
    pc,           \* index of the next statement of Program
    status,       \* "running", "error" (a cell raised) or "done"
    errKind,      \* "none", "library", "NameError" or "AssertionError"
    env,          \* the session's namespace: bound name -> value
    li,           \* iterations started of the innermost simple for-loop
    ki,           \* iterations started of `for kind in kinds`
    fi,           \* iterations started of `for train, test in cv.split(...)`
    rngStream,    \* the shuffle stream numpy derives from random_state=0
    clfStream,    \* which test subjects the fitted classifiers get right
    caught,       \* exceptions caught by the except clause
    raised,       \* exceptions raised so far
    installs,     \* executions of `!pip install nilearn`
    importTries,  \* executions of `import nilearn` in the import cell
    versionEvals, \* evaluations of `nilearn.__version__`
    cleaned,      \* the (scan, confounds) pairs given to masker.transform, each
                  \* file named by the participant it belongs to
    estimators,   \* per estimator name: the kind, fold and run of the cell that
                  \* created the object, and the indices it was last fitted on
    rngPos,       \* draws made from the generator cv.split uses
    splitLog,     \* the (train, test) pairs of the first pass over the folds
    runs          \* times the cross-validation cell was run again

vars == <<nb, dataset, pc, status, errKind, env, li, ki, fi, rngStream, clfStream,
          caught, raised, installs, importTries, versionEvals, cleaned, estimators,
          rngPos, splitLog, runs>>

(***************************************************************************)
(* Numbers the notebooks state.                                            *)
(***************************************************************************)
\* fetch_development_fmri(n_subjects=30)
n_subjects == 30
\* "this data set has 24 children"
NChildren == 24
\* the scans' number of volumes: "(50, 59, 50, 168)"
NVolumes == 168
\* "our 39 regions of interest provided by the MSDL atlas"
NRegions == 39
\* assert p.shape == (168, 39)
AssertVolumes == 168
AssertRegions == 39
\* StratifiedShuffleSplit(n_splits=15, random_state=0, test_size=5)
n_splits == 15
test_size == 5
random_state == 0
\* plt.subplots(1, 3, ...)
NAxes == 3
\* axvline(.8): the red line, as the fraction ChanceNum / ChanceDen
ChanceNum == 8
ChanceDen == 10

(***************************************************************************)
(* Bounds of the model.                                                    *)
(***************************************************************************)
\* axvline(.5): the chance level of two balanced classes
ChanceLevelHalf == [num |-> 1, den |-> 2]

\* axvline(.8, color='red', ...)
ChanceLevel == [num |-> ChanceNum, den |-> ChanceDen]

\* the shuffle streams 0..MaxShuffle stand for the unknown stream of seed 0
MaxShuffle == 1

\* times the cross-validation cell is run again after it finished
MaxReruns == 1

\* what the fitted classifiers predict depends on data the repository does not
\* hold: the patterns 0..MaxClassifier stand for it (0: every prediction right,
\* 1: every prediction wrong, 2: every subject predicted a child, s > 2: right in
\* the folds where kind + fold is a multiple of s, wrong in the others)
MaxClassifier == 2

Notebooks == {"intro", "classification"}

(***************************************************************************)
(* Values.  stage is the pipeline step that produced the value; shape is   *)
(* an array's shape (a list of arrays carries its length first); num is a  *)
(* scalar (or a fraction's numerator, with den); items are a list's        *)
(* entries (row numbers of the dataset, labels, class codes).              *)
(***************************************************************************)
Stages == {"opaque", "fetched", "fitted", "timeseries", "matrix", "result"}

Val(stage, shape, num, den, items) ==
    [stage |-> stage, shape |-> shape, num |-> num, den |-> den, items |-> items]

Module == Val("opaque", <<>>, 0, 1, <<>>)

Bind(e, names, v) == [n \in (DOMAIN e) \cup names |-> IF n \in names THEN v ELSE e[n]]

Range(s) == {s[i] : i \in 1..Len(s)}

RECURSIVE RowsFrom(_, _, _)
\* the rows k, k+1, ... of a column of labels whose label is `label`, in order
RowsFrom(labels, label, k) ==
    IF k > Len(labels) THEN <<>>
    ELSE (IF labels[k] = label THEN <<k>> ELSE <<>>) \o RowsFrom(labels, label, k + 1)

(***************************************************************************)
(* A statement: its source line, what it does (op), the names it reads,    *)
(* the names it binds, the name that receives the computed value (out),    *)
(* its operands in order (args), an integer and a string parameter, and    *)
(* where control goes after it when that is not the next statement (jump). *)
(***************************************************************************)
St(line, op, reads, binds, out, args, n, s, jump) ==
    [line |-> line, op |-> op, reads |-> reads, binds |-> binds, out |-> out,
     args |-> args, n |-> n, s |-> s, jump |-> jump]

\* an import or a magic: binds modules
Imp(line, binds) == St(line, "import", {}, binds, "", <<>>, 0, "", 0)
\* an expression or call whose value no claim reads
Call(line, reads, binds) == St(line, "call", reads, binds, "", <<>>, 0, "", 0)
\* an attribute or display of a value: no library computation
Expr(line, reads) == St(line, "expr", reads, {}, "", <<>>, 0, "", 0)
\* a statement that computes the value of `out` from `args`
Op(line, op, out, args, n, s) ==
    St(line, op, Range(args), IF out = "" THEN {} ELSE {out}, out, args, n, s, 0)
\* the same, reading more names (modules) than its operands
OpR(line, op, reads, out, args, n, s) ==
    St(line, op, reads \cup Range(args), IF out = "" THEN {} ELSE {out}, out, args, n, s, 0)

(***************************************************************************)
(* intro-to-nilearn.ipynb, its code cells top to bottom.                   *)
(***************************************************************************)
IntroStmts == <<
    Imp(60, {}),
    St(71, "try_import", {}, {"nilearn"}, "", <<>>, 0, "", 5),
    St(73, "pip_install", {}, {}, "", <<>>, 0, "", 0),
    Imp(74, {"nilearn"}),
    St(75, "version", {"nilearn"}, {}, "", <<>>, 0, "", 0),
    Imp(100, {"MNI152_FILE_PATH"}),
    Expr(103, {"MNI152_FILE_PATH"}),
    Imp(125, {"plotting"}),
    Call(126, {"plotting", "MNI152_FILE_PATH"}, {}),
    Imp(156, {"datasets"}),
    Call(159, {"datasets"}, {"mni_template_3mm"}),
    Expr(160, {"mni_template_3mm"}),
    Imp(184, {"image"}),
    Call(200, {"image"}, {}),
    Call(219, {"image", "mni_template_3mm"}, {"smooth_anat_img"}),
    Expr(237, {"smooth_anat_img"}),
    Call(257, {"plotting", "smooth_anat_img"}, {}),
    Imp(286, {"pd"}),
    Call(289, {"pd"}, {"data"}),
    Call(290, {"data"}, {}),
    Imp(346, {"datasets"}),
    OpR(348, "fetch", {"datasets"}, "development_dataset", <<>>, n_subjects, ""),
    Expr(349, {"development_dataset"}),
    Expr(369, {"development_dataset"}),
    Imp(385, {"image"}),
    Call(387, {"image", "development_dataset"}, {"img"}),
    Expr(388, {"img"}),
    Imp(433, {"plotting"}),
    Call(435, {"image", "img"}, {"mean_image"}),
    Call(436, {"plotting", "mean_image"}, {}),
    Imp(467, {"Image"}),
    Call(468, {"Image"}, {}),
    Imp(514, {"np"}),
    OpR(516, "fetch_atlas", {"datasets"}, "msdl_atlas", <<>>, 0, ""),
    Expr(517, {"msdl_atlas"}),
    Op(526, "region_coords", "msdl_coords", <<"msdl_atlas">>, 0, ""),
    Op(527, "len", "n_regions", <<"msdl_coords">>, 0, ""),
    Call(529, {"n_regions", "np", "msdl_atlas"}, {}),
    Call(546, {"image", "msdl_atlas"}, {}),
    Call(562, {"plotting", "msdl_atlas"}, {}),
    Imp(614, {"maskers"}),
    OpR(616, "masker_fit", {"maskers"}, "masker", <<"msdl_atlas">>, 1, ""),
    Op(657, "transform", "roi_time_series", <<"masker", "development_dataset">>, 1, ""),
    Expr(658, {"roi_time_series"}),
    Call(686, {"Image"}, {}),
    Imp(733, {"connectome"}),
    OpR(735, "new_measure", {"connectome"}, "correlation_measure", <<>>, 0, "correlation"),
    Op(736, "fit_transform", "correlation_matrix",
       <<"correlation_measure", "roi_time_series">>, 1, ""),
    Imp(752, {"plt"}),
    OpR(754, "fill_diagonal", {"np"}, "", <<"correlation_matrix">>, 0, ""),
    Call(755, {"plt"}, {"fig"}),
    OpR(756, "plot_matrix", {"plotting", "msdl_atlas", "fig"}, "",
        <<"correlation_matrix">>, 0, ""),
    OpR(779, "view_connectome", {"plotting", "msdl_atlas"}, "",
        <<"correlation_matrix">>, 0, ""),
    Call(812, {"pd", "development_dataset"}, {}),
    Op(834, "transform", "corrected_roi_time_series",
       <<"masker", "development_dataset", "development_dataset">>, 1, ""),
    Op(846, "fit_transform", "corrected_correlation_matrix",
       <<"correlation_measure", "corrected_roi_time_series">>, 1, ""),
    OpR(848, "fill_diagonal", {"np"}, "", <<"corrected_correlation_matrix">>, 0, ""),
    Call(849, {"plt"}, {"fig"}),
    OpR(850, "plot_matrix", {"plotting", "msdl_atlas", "fig"}, "",
        <<"corrected_correlation_matrix">>, 0, ""),
    OpR(873, "view_connectome", {"plotting", "msdl_atlas"}, "",
        <<"corrected_correlation_matrix">>, 0, "")
>>

\* the first import outside any try: the installation always runs
IntroProgramAlwaysInstall ==
    [IntroStmts EXCEPT ![2] = St(71, "try_import", {}, {"nilearn"}, "", <<>>, 0, "", 3)]

\* the cell of line 514 without its `import numpy as np`
IntroProgramNoNumpy == [IntroStmts EXCEPT ![33] = Imp(514, {})]

IntroProgram == IntroStmts

(***************************************************************************)
(* classification-example.ipynb, its code cells top to bottom.             *)
(***************************************************************************)
ClassificationStmts == <<
    Imp(63, {}),
    Imp(76, {"np"}),
    Imp(77, {"plt"}),
    Imp(78, {"datasets", "maskers", "plotting"}),
    Imp(79, {"ConnectivityMeasure"}),
    OpR(82, "fetch", {"datasets"}, "development_dataset", <<>>, n_subjects, ""),
    OpR(83, "fetch_atlas", {"datasets"}, "msdl_atlas", <<>>, 0, ""),
    OpR(86, "masker_fit", {"maskers"}, "masker", <<"msdl_atlas">>, 1, ""),
    OpR(96, "new_measure", {"ConnectivityMeasure"}, "correlation_measure", <<>>, 0,
        "correlation"),
    Op(131, "mask", "child_idx", <<"development_dataset">>, 0, "child"),
    OpR(132, "take", {"np"}, "child_func_files", <<"development_dataset", "child_idx">>, 0,
        "func"),
    OpR(133, "take", {"np"}, "child_confound_files",
        <<"development_dataset", "child_idx">>, 0, "confounds"),
    Op(134, "mask", "adult_idx", <<"development_dataset">>, 0, "adult"),
    OpR(135, "take", {"np"}, "adult_func_files", <<"development_dataset", "adult_idx">>, 0,
        "func"),
    OpR(136, "take", {"np"}, "adult_confound_files",
        <<"development_dataset", "adult_idx">>, 0, "confounds"),
    Expr(138, {"child_func_files", "adult_func_files"}),
    Op(155, "transform", "children",
       <<"masker", "child_func_files", "child_confound_files">>, 0, ""),
    Op(156, "transform", "adults",
       <<"masker", "adult_func_files", "adult_confound_files">>, 0, ""),
    Op(157, "concat", "pooled_subjects", <<"adults", "children">>, 0, ""),
    St(173, "for_each", {"pooled_subjects"}, {"p"}, "p", <<"pooled_subjects">>, 0, "", 22),
    St(174, "assert_shape", {"p"}, {}, "", <<"p">>, 0, "", 20),
    Op(198, "fit_transform", "correlation_matrices",
       <<"correlation_measure", "children">>, 0, ""),
    Expr(214, {"correlation_matrices"}),
    Op(231, "mean_", "mean_correlation_matrix", <<"correlation_measure">>, 0, ""),
    Expr(232, {"mean_correlation_matrix"}),
    St(248, "subplots", {"plt"}, {"_", "axes"}, "axes", <<>>, NAxes, "", 0),
    St(249, "for_zip", {"correlation_matrices", "axes"}, {"i", "matrix", "ax"}, "matrix",
       <<"correlation_matrices", "axes">>, 0, "", 29),
    St(250, "plot_matrix", {"plotting", "matrix", "ax", "i"}, {}, "", <<"matrix">>, 0, "", 27),
    OpR(274, "view_connectome", {"plotting", "msdl_atlas"}, "",
        <<"mean_correlation_matrix">>, 0, ""),
    OpR(299, "new_measure", {"ConnectivityMeasure"}, "partial_correlation_measure", <<>>, 0,
        "partial correlation"),
    Op(300, "fit_transform", "partial_correlation_matrices",
       <<"partial_correlation_measure", "children">>, 0, ""),
    St(317, "subplots", {"plt"}, {"_", "axes"}, "axes", <<>>, NAxes, "", 0),
    St(318, "for_zip", {"partial_correlation_matrices", "axes"}, {"i", "matrix", "ax"},
       "matrix", <<"partial_correlation_matrices", "axes">>, 0, "", 35),
    St(319, "plot_matrix", {"plotting", "matrix", "ax", "i"}, {}, "", <<"matrix">>, 0, "", 33),
    OpR(342, "view_connectome", {"plotting", "msdl_atlas"}, "",
        <<"partial_correlation_measure">>, 0, ""),
    OpR(369, "new_measure", {"ConnectivityMeasure"}, "tangent_measure", <<>>, 0, "tangent"),
    Op(385, "fit_transform", "tangent_matrices", <<"tangent_measure", "children">>, 0, ""),
    St(403, "subplots", {"plt"}, {"_", "axes"}, "axes", <<>>, NAxes, "", 0),
    St(404, "for_zip", {"tangent_matrices", "axes"}, {"i", "matrix", "ax"}, "matrix",
       <<"tangent_matrices", "axes">>, 0, "", 41),
    St(405, "plot_matrix", {"plotting", "matrix", "ax", "i"}, {}, "", <<"matrix">>, 0, "", 39),
    Imp(443, {"accuracy_score"}),
    Imp(444, {"StratifiedShuffleSplit"}),
    Imp(445, {"LinearSVC"}),
    Op(447, "groups", "groups", <<"development_dataset">>, 0, ""),
    Op(448, "kinds", "kinds", <<>>, 0, ""),
    St(449, "unique_inverse", {"np", "groups"}, {"_", "classes"}, "classes", <<"groups">>,
       0, "", 0),
    OpR(450, "new_cv", {"StratifiedShuffleSplit"}, "cv", <<>>, n_splits, ""),
    OpR(451, "asarray", {"np"}, "pooled_subjects", <<"pooled_subjects">>, 0, ""),
    Op(467, "new_scores", "scores", <<>>, 0, ""),
    St(468, "for_kind", {"kinds"}, {"kind"}, "kind", <<"kinds">>, 0, "", 58),
    St(469, "scores_init", {"scores", "kind"}, {}, "scores", <<"scores", "kind">>, 0, "", 0),
    St(470, "for_fold", {"cv", "pooled_subjects", "classes"}, {"train", "test"}, "",
       <<"cv", "pooled_subjects", "classes">>, 0, "", 50),
    OpR(473, "new_measure", {"ConnectivityMeasure", "kind"}, "connectivity", <<>>, 1, ""),
    Op(475, "fit_transform", "connectomes", <<"connectivity", "pooled_subjects", "train">>,
       0, "train"),
    OpR(477, "clf_fit", {"LinearSVC"}, "classifier", <<"connectomes", "classes", "train">>,
        0, ""),
    Op(479, "predict", "predictions",
       <<"classifier", "connectivity", "pooled_subjects", "test", "classes">>, 0, ""),
    St(482, "append_score", {"scores", "kind", "accuracy_score", "classes", "test",
                             "predictions"}, {}, "scores",
       <<"scores", "kind", "classes", "test", "predictions">>, 0, "", 52),
    OpR(498, "mean_scores", {"np"}, "mean_scores", <<"scores", "kinds">>, 0, ""),
    Call(499, {"np", "scores", "kinds"}, {"scores_std"}),
    Call(501, {"plt"}, {}),
    Call(502, {"np", "kinds"}, {"positions"}),
    Call(503, {"plt", "positions", "mean_scores", "scores_std"}, {}),
    St(504, "expr", {"kinds"}, {"yticks"}, "", <<>>, 0, "", 0),
    Call(505, {"plt", "positions", "yticks"}, {}),
    Call(506, {"plt"}, {}),
    Call(507, {"plt"}, {}),
    Call(508, {"plt"}, {}),
    Call(509, {"plt"}, {}),
    Call(510, {"plt"}, {}),
    Expr(526, {"scores_std"})
>>

\* the correlation measure fitted on pooled_subjects instead of children
ClassificationProgramPooled ==
    [ClassificationStmts EXCEPT ![22] =
        Op(198, "fit_transform", "correlation_matrices",
           <<"correlation_measure", "pooled_subjects">>, 0, "")]

\* the fold's measure fitted on all of pooled_subjects
ClassificationProgramFitAll ==
    [ClassificationStmts EXCEPT ![54] =
        Op(475, "fit_transform", "connectomes", <<"connectivity", "pooled_subjects", "train">>,
           0, "")]

\* the setup cell without `import numpy as np`, np left to the first notebook
ClassificationProgramNoNumpy == [ClassificationStmts EXCEPT ![2] = Imp(76, {})]

ClassificationProgram == ClassificationStmts

Program == IF nb = "intro" THEN IntroProgram ELSE ClassificationProgram

(***************************************************************************)
(* The library calls, by the contract the notebooks rely on.               *)
(***************************************************************************)
Min(a, b) == IF a <= b THEN a ELSE b
Max(a, b) == IF a >= b THEN a ELSE b

RECURSIVE SumOver(_, _)
SumOver(f, S) ==
    IF S = {} THEN 0
    ELSE LET c == CHOOSE x \in S : TRUE IN f[c] + SumOver(f, S \ {c})

\* the Child_Adult column of the n fetched participants: the fetcher lists the
\* adults, then the children
Phenotypic(n) == [i \in 1..n |-> IF i <= n - NChildren THEN "adult" ELSE "child"]

\* other row orders a participants table can have, and a table with a value
\* that is neither 'child' nor 'adult'
Layouts == {"adults_first", "children_first", "interleaved", "other_value"}

PhenotypicIn(layout, n) ==
    [i \in 1..n |->
        CASE layout = "adults_first" -> Phenotypic(n)[i]
          [] layout = "children_first" -> IF i <= NChildren THEN "child" ELSE "adult"
          [] layout = "interleaved" -> IF i % 5 = 0 THEN "adult" ELSE "child"
          [] layout = "other_value" -> IF i = 10 THEN "other" ELSE Phenotypic(n)[i]]

\* the order of a list of files: entry j is the file of the participant of
\* row j of the table, or the list runs the other way
Orders == {"rows", "reversed"}

FileOwner(order, n) == [j \in 1..n |-> IF order = "rows" THEN j ELSE n + 1 - j]

\* development_dataset: .phenotypic['Child_Adult'], .func and .confounds, the
\* last two as the participant (row of the table) each file belongs to
Bunch(labels, func, confounds) ==
    [labels |-> labels, func |-> func, confounds |-> confounds]

\* what the fetcher returns for n participants
LibraryDataset(n) == Bunch(Phenotypic(n), FileOwner("rows", n), FileOwner("rows", n))

\* the datasets of n participants the claims about row order range over
Datasets(n) ==
    {Bunch(PhenotypicIn(l, n), FileOwner(f, n), FileOwner(c, n)) :
        l \in Layouts, f \in Orders, c \in Orders}

fetch_development_fmri(n, bunch) == Val("fetched", <<n>>, n, 1, bunch.labels)

fetch_atlas_msdl == Val("fetched", <<NRegions>>, NRegions, 1, <<>>)

\* msdl_atlas.region_coords: one (x, y, z) per region
region_coords(atlas) == Val("fetched", <<Head(atlas.shape), 3>>, 0, 1, <<>>)

len(v) == Val("opaque", <<>>, Head(v.shape), 1, <<>>)

\* the masker built without .fit()
NiftiMapsMaskerUnfitted(atlas, fit) == Val("opaque", <<Head(atlas.shape)>>, 0, 1, <<>>)

\* maskers.NiftiMapsMasker(msdl_atlas.maps, ...).fit(): one signal per map
NiftiMapsMasker(atlas, fit) ==
    Val(IF fit = 1 THEN "fitted" ELSE "opaque", <<Head(atlas.shape)>>, 0, 1, <<>>)

\* the signals returned as (regions, volumes)
transformTransposed(masker, files, single) ==
    IF single = 1
    THEN Val("timeseries", <<Head(masker.shape), NVolumes>>, 0, 1, <<1>>)
    ELSE Val("timeseries", <<Len(files.items), Head(masker.shape), NVolumes>>, 0, 1,
             files.items)

\* masker.transform(img): (volumes, regions); of a list of images: a list of these
transform(masker, files, single) ==
    IF single = 1
    THEN Val("timeseries", <<NVolumes, Head(masker.shape)>>, 0, 1, <<1>>)
    ELSE Val("timeseries", <<Len(files.items), NVolumes, Head(masker.shape)>>, 0, 1,
             files.items)

\* children + adults: the two lists the other way round
concatSwapped(a, b) ==
    Val(a.stage, <<Head(a.shape) + Head(b.shape)>> \o Tail(a.shape), 0, 1,
        b.items \o a.items)

\* adults + children: the concatenation of two lists
concat(a, b) ==
    Val(a.stage, <<Head(a.shape) + Head(b.shape)>> \o Tail(a.shape), 0, 1,
        a.items \o b.items)

\* a set of row numbers in ascending order
Ascending(S) ==
    [j \in 1..Cardinality(S) |-> CHOOSE i \in S : Cardinality({k \in S : k <= i}) = j]

\* phenotypic['Child_Adult'] != label: the rows with another label
maskComplement(table, label) ==
    Val("fetched", <<Len(table.items)>>, 0, 1,
        Ascending({i \in 1..Len(table.items) : table.items[i] # label}))

\* phenotypic['Child_Adult'] != the other group's label: the rows that do not
\* belong to the other group
maskNotOther(table, label) ==
    Val("fetched", <<Len(table.items)>>, 0, 1,
        Ascending({i \in 1..Len(table.items) :
                     table.items[i] \notin ({"adult", "child"} \ {label})}))

\* phenotypic['Child_Adult'] == label: the rows with that label
mask(table, label) ==
    Val("fetched", <<Len(table.items)>>, 0, 1, RowsFrom(table.items, label, 1))

\* np.array(development_dataset[...])[idx]: the files at the selected rows of
\* the list, each named by the participant it belongs to
take(column, idx) ==
    Val("fetched", <<Len(idx.items)>>, 0, 1,
        [j \in 1..Len(idx.items) |-> column[idx.items[j]]])

groups(table) == Val("fetched", <<Len(table.items)>>, 0, 1, table.items)

kinds == Val("opaque", <<3>>, 0, 1, <<"correlation", "partial correlation", "tangent">>)

\* the labels' alphabetical rank
LabelRank(l) == IF l = "adult" THEN 1 ELSE IF l = "child" THEN 2 ELSE 3

\* np.unique(groups, return_inverse=True)[1]: each label's index among the
\* sorted distinct labels
unique_inverse(g) ==
    Val("fetched", g.shape, 0, 1,
        [i \in 1..Len(g.items) |->
            Cardinality({LabelRank(l) : l \in {m \in Range(g.items) :
                                               LabelRank(m) < LabelRank(g.items[i])}})])

ConnectivityMeasure(kind, vectorize) == Val("opaque", <<>>, vectorize, 1, <<kind>>)

\* the list of time series a fit_transform statement passes: [x], x[train] or x
MeasureInput(st, e) ==
    LET x == e[st.args[2]]
    IN  IF st.n = 1 THEN <<1>> \o x.shape
        ELSE IF st.s = "train" THEN <<Cardinality(e["train"].items)>> \o Tail(x.shape)
        ELSE x.shape

\* measure.fit_transform(list of n arrays (volumes, F)): n matrices (F, F), or
\* n vectors of the F(F+1)/2 lower-triangle coefficients when vectorize=True
fit_transform(measure, in) ==
    LET F == in[3]
    IN  Val("matrix",
            IF measure.num = 1 THEN <<in[1], (F * (F + 1)) \div 2>> ELSE <<in[1], F, F>>,
            0, 1, <<>>)

\* the fitted measure: its mean_ is one (F, F) matrix
fit(measure, in) == [measure EXCEPT !.stage = "matrix", !.shape = <<in[3], in[3]>>]

\* the statement's value without the [0]
FitTransformNoIndex(st, e) == fit_transform(e[st.args[1]], MeasureInput(st, e))

\* the statement's value: fit_transform(...)[0] when the statement indexes it
FitTransformResult(st, e) ==
    LET r == fit_transform(e[st.args[1]], MeasureInput(st, e))
    IN  IF st.n = 1 THEN [r EXCEPT !.shape = Tail(r.shape)] ELSE r

mean_(measure) == Val("matrix", measure.shape, 0, 1, <<>>)

\* sklearn's proportional allocation of n_draws among the classes (ties go to
\* the lower class here)
approximate_mode(class_counts, n_draws) ==
    LET C == DOMAIN class_counts
        total == SumOver(class_counts, C)
        floored == [c \in C |-> (n_draws * class_counts[c]) \div total]
        rem == [c \in C |-> (n_draws * class_counts[c]) % total]
        need == n_draws - SumOver(floored, C)
        before(c) == {d \in C : rem[d] > rem[c] \/ (rem[d] = rem[c] /\ d < c)}
    IN  [c \in C |-> floored[c] + IF Cardinality(before(c)) < need THEN 1 ELSE 0]

\* random_state=None: no seed, the splits draw from numpy's global generator
RandomStateNone == <<>>

\* random_state=0: an integer seed
RandomState == <<random_state>>

\* sklearn's check_random_state: a seed gives a new generator at its first draw,
\* no seed gives the global generator where earlier draws left it
check_random_state(seed, pos) == IF seed = <<>> THEN pos ELSE 0

\* the shuffle of a class's m members at draw `fold` of stream `stream`
Permutation(m, stream, fold, c) ==
    [j \in 1..Len(m) |-> m[((j - 1 + stream + fold + c) % Len(m)) + 1]]

\* one (train, test) pair of ShuffleSplit: the shuffle ignores the classes
ShuffleSplit(y, n_test, stream, fold) ==
    LET perm == Permutation([i \in 1..Len(y) |-> i], stream, fold, 0)
    IN  [train |-> {perm[j] : j \in (n_test + 1)..Len(y)},
         test |-> {perm[j] : j \in 1..n_test}]

\* one (train, test) pair of StratifiedShuffleSplit(test_size=n_test).split(X, y)
StratifiedShuffleSplit(y, n_test, stream, fold) ==
    LET C == Range(y)
        counts == [c \in C |-> Len(RowsFrom(y, c, 1))]
        n_i == approximate_mode(counts, Len(y) - n_test)
        t_i == approximate_mode([c \in C |-> counts[c] - n_i[c]], n_test)
        perm == [c \in C |-> Permutation(RowsFrom(y, c, 1), stream, fold, c)]
    IN  [train |-> UNION {{perm[c][j] : j \in 1..n_i[c]} : c \in C},
         test |-> UNION {{perm[c][j] : j \in (n_i[c] + 1)..(n_i[c] + t_i[c])} : c \in C}]

Indices(S) == Val("opaque", <<Cardinality(S)>>, 0, 1, S)

\* classifier.predict on the test subjects idx of fold f of kind k, under
\* pattern s
predict(s, k, f, y, idx) ==
    Val("result", <<Cardinality(idx)>>, 0, 1,
        [i \in idx |-> CASE s = 0 -> y[i]
                         [] s = 1 -> 1 - y[i]
                         [] s = 2 -> 1
                         [] OTHER -> IF (k + f) % s = 0 THEN y[i] ELSE 1 - y[i]])

\* accuracy_score(..., normalize=False): the number of matches
accuracy_count(y, idx, y_pred) ==
    [num |-> Cardinality({i \in idx : y_pred[i] = y[i]}), den |-> 1]

\* accuracy_score(classes[test], predictions): the fraction of matches
accuracy_score(y, idx, y_pred) ==
    [num |-> Cardinality({i \in idx : y_pred[i] = y[i]}), den |-> Cardinality(idx)]

\* a list of scores, kept as its length, the sum, least and greatest of the
\* scores' numerators, and their common denominator
EmptyList == [n |-> 0, sum |-> 0, lo |-> 0, hi |-> 0, den |-> 1]

append(l, x) ==
    [n |-> l.n + 1, sum |-> l.sum + x.num,
     lo |-> IF l.n = 0 THEN x.num ELSE Min(l.lo, x.num),
     hi |-> IF l.n = 0 THEN x.num ELSE Max(l.hi, x.num),
     den |-> x.den]

\* np.mean of a list of scores
mean(l) == [num |-> l.sum, den |-> l.n * l.den]

\* [np.mean(scores[kind]) for kind in kinds]
mean_scores(scores, ks) ==
    Val("result", <<Len(ks.items)>>, 0, 1,
        [j \in 1..Len(ks.items) |-> mean(scores.items[ks.items[j]])])

(***************************************************************************)
(* Execution of one statement.                                             *)
(***************************************************************************)
Cur == Program[pc]

Running == status = "running" /\ pc <= Len(Program)

ForOps == {"for_each", "for_zip", "for_kind", "for_fold"}

\* statements with an action of their own
SpecialOps == ForOps \cup {"try_import", "pip_install"}

\* statements that call no library code: they raise nothing of a library's
NoRaiseOps == {"expr", "version", "pip_install", "region_coords", "len", "concat",
               "kinds", "new_scores", "scores_init", "assert_shape", "for_each",
               "for_zip", "for_kind"}

MayRaise(st) == st.op \notin NoRaiseOps

\* every name the statement reads is bound
NameOK(st) == st.reads \subseteq DOMAIN env

\* a try around every import
CaughtAnyImport(st) == st.op \in {"try_import", "import"}

\* the exceptions the except clause of a statement catches: only the first
\* `import nilearn` is inside a try
Caught(st) == st.op = "try_import"

\* the statement raises whatever the libraries do: a failed assertion, or
\* cv.split given X and y of different lengths
MustFail(st, e) ==
    \/ st.op = "assert_shape" /\ e["p"].shape # <<AssertVolumes, AssertRegions>>
    \/ st.op = "for_fold" /\ Head(e[st.args[2]].shape) # Len(e[st.args[3]].items)

ErrorOf(st) ==
    IF ~NameOK(st) THEN "NameError"
    ELSE IF st.op = "assert_shape" /\ MustFail(st, env) THEN "AssertionError"
    ELSE "library"

ImportsNilearn(st) == st.op \in {"import", "try_import"} /\ "nilearn" \in st.binds

\* the value the statement computes
Value(st, e) ==
    LET a(k) == e[st.args[k]]
    IN  CASE st.op = "fetch" -> fetch_development_fmri(st.n, dataset)
          [] st.op = "fetch_atlas" -> fetch_atlas_msdl
          [] st.op = "region_coords" -> region_coords(a(1))
          [] st.op = "len" -> len(a(1))
          [] st.op = "masker_fit" -> NiftiMapsMasker(a(1), st.n)
          [] st.op = "transform" -> transform(a(1), a(2), st.n)
          [] st.op = "concat" -> concat(a(1), a(2))
          [] st.op = "mask" -> mask(a(1), st.s)
          [] st.op = "take" ->
                take(IF st.s = "confounds" THEN dataset.confounds ELSE dataset.func, a(2))
          [] st.op = "groups" -> groups(a(1))
          [] st.op = "kinds" -> kinds
          [] st.op = "unique_inverse" -> unique_inverse(a(1))
          [] st.op = "new_measure" ->
                ConnectivityMeasure(IF st.s = "" THEN e["kind"].items[1] ELSE st.s, st.n)
          [] st.op = "fit_transform" -> FitTransformResult(st, e)
          [] st.op = "mean_" -> mean_(a(1))
          [] st.op = "subplots" -> Val("opaque", <<st.n>>, 0, 1, <<>>)
          [] st.op = "new_cv" -> Val("opaque", <<>>, st.n, 1, <<test_size, RandomState>>)
          [] st.op = "asarray" -> a(1)
          [] st.op = "new_scores" -> Val("result", <<>>, 0, 1, <<>>)
          [] st.op = "scores_init" ->
                [a(1) EXCEPT !.items = (a(2).items[1] :> EmptyList) @@ a(1).items]
          [] st.op = "clf_fit" -> Val("result", <<>>, 0, 1, <<>>)
          [] st.op = "predict" -> predict(clfStream, ki, fi, a(5).items, a(4).items)
          [] st.op = "append_score" ->
                LET k == a(2).items[1]
                IN  [a(1) EXCEPT !.items =
                        (k :> append(a(1).items[k],
                                     accuracy_score(a(3).items, a(4).items, a(5).items)))
                        @@ a(1).items]
          [] st.op = "mean_scores" -> mean_scores(a(1), a(2))
          [] OTHER -> Module

\* the namespace after the statement: the names it binds, its value, and the
\* measure a fit_transform fits in place
Exec(st, e) ==
    LET e1 == Bind(e, st.binds \ {st.out}, Module)
        e2 == IF st.out = "" THEN e1 ELSE Bind(e1, {st.out}, Value(st, e))
    IN  IF st.op = "fit_transform"
        THEN Bind(e2, {st.args[1]}, fit(e[st.args[1]], MeasureInput(st, e)))
        ELSE e2

\* the last statement of a loop body not indented: control falls through
NextPcFallThrough(st) == pc + 1

\* where control goes after a statement: the next statement, or the head of
\* the loop whose body the statement ends
NextPc(st) == IF st.jump # 0 THEN st.jump ELSE pc + 1

\* the (scan, confounds) pairs a masker.transform(imgs, confounds=...) is given
Cleaned(st, e) ==
    IF st.op = "transform" /\ Len(st.args) = 3
    THEN IF st.n = 1 THEN {<<dataset.func[1], dataset.confounds[1]>>}
         ELSE {<<e[st.args[2]].items[j], e[st.args[3]].items[j]>> :
                  j \in 1..Len(e[st.args[2]].items)}
    ELSE {}

\* the indices of the list a fit statement passes to the estimator
FitIndices(st, e) ==
    IF st.op = "clf_fit" THEN e[st.args[3]].items
    ELSE IF st.s = "train" THEN e["train"].items
    ELSE 1..MeasureInput(st, e)[1]

\* an estimator object just constructed in this kind, fold and run
NewEstimator(on) == [kind |-> ki, fold |-> fi, run |-> runs, fitted |-> on]

\* the estimators after the statement: a constructor call binds a new object,
\* a fit changes the object it is called on
Fitted(st, e) ==
    CASE st.op = "new_measure" -> (st.out :> NewEstimator({})) @@ estimators
      [] st.op = "clf_fit" -> (st.out :> NewEstimator(FitIndices(st, e))) @@ estimators
      [] st.op = "fit_transform" ->
            [estimators EXCEPT ![st.args[1]].fitted = FitIndices(st, e)]
      [] OTHER -> estimators

(***************************************************************************)
(* The run.                                                                *)
(***************************************************************************)
Init ==
    /\ nb \in Notebooks
    /\ dataset = LibraryDataset(n_subjects)
    /\ pc = 1
    /\ status = "running"
    /\ errKind = "none"
    /\ env = <<>>
    /\ li = 0 /\ ki = 0 /\ fi = 0
    /\ rngStream \in (IF nb = "classification" THEN 0..MaxShuffle ELSE {0})
    /\ clfStream \in (IF nb = "classification" THEN 0..MaxClassifier ELSE {0})
    /\ caught = 0 /\ raised = 0 /\ installs = 0 /\ importTries = 0 /\ versionEvals = 0
    /\ cleaned = {} /\ estimators = <<>> /\ rngPos = 0 /\ splitLog = <<>> /\ runs = 0

\* a statement runs to its end
ExecStmt ==
    /\ Running
    /\ Cur.op \notin SpecialOps
    /\ NameOK(Cur)
    /\ ~MustFail(Cur, env)
    /\ env' = Exec(Cur, env)
    /\ pc' = NextPc(Cur)
    /\ importTries' = IF ImportsNilearn(Cur) THEN importTries + 1 ELSE importTries
    /\ versionEvals' = IF Cur.op = "version" THEN versionEvals + 1 ELSE versionEvals
    /\ cleaned' = cleaned \cup Cleaned(Cur, env)
    /\ estimators' = Fitted(Cur, env)
    /\ UNCHANGED <<nb, dataset, rngPos, splitLog, runs, status, errKind, li, ki, fi, rngStream, clfStream, caught, raised, installs>>

\* try: import nilearn  -- found: the except clause is skipped
TryImport ==
    /\ Running
    /\ Cur.op = "try_import"
    /\ env' = Exec(Cur, env)
    /\ pc' = Cur.jump
    /\ importTries' = importTries + 1
    /\ UNCHANGED <<nb, dataset, cleaned, estimators, rngPos, splitLog, runs, status, errKind, li, ki, fi, rngStream, clfStream, caught, raised, installs,
                   versionEvals>>

\* a statement inside a try raises: control goes to the except clause
ImportCaught ==
    /\ Running
    /\ Caught(Cur)
    /\ MayRaise(Cur)
    /\ pc' = pc + 1
    /\ raised' = raised + 1
    /\ caught' = caught + 1
    /\ importTries' = IF ImportsNilearn(Cur) THEN importTries + 1 ELSE importTries
    /\ UNCHANGED <<nb, dataset, cleaned, estimators, rngPos, splitLog, runs, status, errKind, env, li, ki, fi, rngStream, clfStream, installs,
                   versionEvals>>

\* !pip install nilearn  -- a shell command: it raises nothing, whatever pip does
PipInstall ==
    /\ Running
    /\ Cur.op = "pip_install"
    /\ installs' = installs + 1
    /\ pc' = pc + 1
    /\ UNCHANGED <<nb, dataset, cleaned, estimators, rngPos, splitLog, runs, status, errKind, env, li, ki, fi, rngStream, clfStream, caught, raised,
                   importTries, versionEvals>>

\* a statement outside any try raises: the cell stops there, and so does the run
Raise ==
    /\ Running
    /\ ~Caught(Cur)
    /\ ~NameOK(Cur) \/ MustFail(Cur, env) \/ MayRaise(Cur)
    /\ status' = "error"
    /\ errKind' = ErrorOf(Cur)
    /\ raised' = raised + 1
    /\ importTries' = IF NameOK(Cur) /\ ImportsNilearn(Cur) THEN importTries + 1
                      ELSE importTries
    /\ UNCHANGED <<nb, dataset, cleaned, estimators, rngPos, splitLog, runs, pc, env, li, ki, fi, rngStream, clfStream, caught, installs, versionEvals>>

Counter(st) == IF st.op = "for_kind" THEN ki ELSE IF st.op = "for_fold" THEN fi ELSE li

Iterations(st, e) ==
    CASE st.op = "for_each" -> Head(e[st.args[1]].shape)
      [] st.op = "for_zip" -> Min(Head(e[st.args[1]].shape), Head(e[st.args[2]].shape))
      [] st.op = "for_kind" -> Len(e[st.args[1]].items)
      [] st.op = "for_fold" -> e[st.args[1]].num

\* the number of the draw the next split of cv.split makes: the first split of
\* a call starts from the generator check_random_state gives
Draw(st, e) ==
    (IF fi = 0 THEN check_random_state(e[st.args[1]].items[2], rngPos) ELSE rngPos) + 1

\* the next (train, test) pair of cv.split(pooled_subjects, classes)
Split(st, e) ==
    StratifiedShuffleSplit(e[st.args[3]].items, e[st.args[1]].items[1], rngStream,
                           Draw(st, e))

\* the loop variables of the iteration that starts
LoopBind(st, e) ==
    LET x == e[st.args[1]]
    IN  CASE st.op = "for_each" ->
                Bind(e, st.binds, Val(x.stage, Tail(x.shape), 0, 1, <<x.items[li + 1]>>))
          [] st.op = "for_zip" ->
                Bind(Bind(e, st.binds, Module), {st.out},
                     Val(x.stage, Tail(x.shape), 0, 1, <<>>))
          [] st.op = "for_kind" ->
                Bind(e, st.binds, Val("opaque", <<>>, 0, 1, <<x.items[ki + 1]>>))
          [] st.op = "for_fold" ->
                LET sp == Split(st, e)
                IN  Bind(Bind(e, {"train"}, Indices(sp.train)), {"test"}, Indices(sp.test))

\* a for statement starts its next iteration
ForNext ==
    /\ Running
    /\ Cur.op \in ForOps
    /\ NameOK(Cur)
    /\ ~MustFail(Cur, env)
    /\ Counter(Cur) < Iterations(Cur, env)
    /\ env' = LoopBind(Cur, env)
    /\ ki' = IF Cur.op = "for_kind" THEN ki + 1 ELSE ki
    /\ fi' = IF Cur.op = "for_fold" THEN fi + 1 ELSE fi
    /\ li' = IF Cur.op \in {"for_each", "for_zip"} THEN li + 1 ELSE li
    /\ pc' = pc + 1
    /\ rngPos' = IF Cur.op = "for_fold" THEN Draw(Cur, env) ELSE rngPos
    /\ splitLog' = IF Cur.op = "for_fold" /\ Len(splitLog) = fi
                    THEN Append(splitLog, Split(Cur, env)) ELSE splitLog
    /\ UNCHANGED <<nb, dataset, cleaned, estimators, runs, status, errKind, rngStream, clfStream, caught, raised, installs, importTries,
                   versionEvals>>

\* a for statement's iterable is exhausted
ForExit ==
    /\ Running
    /\ Cur.op \in ForOps
    /\ NameOK(Cur)
    /\ ~MustFail(Cur, env)
    /\ Counter(Cur) >= Iterations(Cur, env)
    /\ ki' = IF Cur.op = "for_kind" THEN 0 ELSE ki
    /\ fi' = IF Cur.op = "for_fold" THEN 0 ELSE fi
    /\ li' = IF Cur.op \in {"for_each", "for_zip"} THEN 0 ELSE li
    /\ pc' = Cur.jump
    /\ UNCHANGED <<nb, dataset, cleaned, estimators, rngPos, splitLog, runs, status, errKind, env, rngStream, clfStream, caught, raised, installs,
                   importTries, versionEvals>>

\* the last cell has run
Finish ==
    /\ status = "running"
    /\ pc = Len(Program) + 1
    /\ status' = "done"
    /\ UNCHANGED <<nb, dataset, cleaned, estimators, rngPos, splitLog, runs, pc, errKind, env, li, ki, fi, rngStream, clfStream, caught, raised, installs,
                   importTries, versionEvals>>

Next ==
    \/ ExecStmt
    \/ TryImport
    \/ ImportCaught
    \/ PipInstall
    \/ Raise
    \/ ForNext
    \/ ForExit
    \/ Finish

Spec == Init /\ [][Next]_vars

(***************************************************************************)
(* The first notebook alone, every enabled step eventually taken: a cell   *)
(* that is run is run to its end, and Run All runs the next one.           *)
(***************************************************************************)
InitIntro == Init /\ nb = "intro"

NextIntro ==
    \/ ExecStmt
    \/ TryImport
    \/ ImportCaught
    \/ PipInstall
    \/ Raise
    \/ Finish

FairIntro == InitIntro /\ [][NextIntro]_vars /\ WF_vars(NextIntro)

(***************************************************************************)
(* The second notebook alone, run on each of the datasets a claim about    *)
(* the table's row order or values ranges over.                            *)
(***************************************************************************)
InitDataset ==
    /\ nb = "classification"
    /\ dataset \in Datasets(n_subjects)
    /\ pc = 1
    /\ status = "running"
    /\ errKind = "none"
    /\ env = <<>>
    /\ li = 0 /\ ki = 0 /\ fi = 0
    /\ rngStream = 0
    /\ clfStream = 0
    /\ caught = 0 /\ raised = 0 /\ installs = 0 /\ importTries = 0 /\ versionEvals = 0
    /\ cleaned = {} /\ estimators = <<>> /\ rngPos = 0 /\ splitLog = <<>> /\ runs = 0

NextClassification ==
    \/ ExecStmt
    \/ Raise
    \/ ForNext
    \/ ForExit
    \/ Finish

SpecDataset == InitDataset /\ [][NextClassification]_vars

(***************************************************************************)
(* The second notebook with its cross-validation cell run again once it    *)
(* has finished, as a notebook's user may do with any cell.                *)
(***************************************************************************)
\* the statement of the notebook that starts at a source line
StmtAt(line) == CHOOSE k \in 1..Len(Program) : Program[k].line = line

\* the cell of lines 467-482 is run again: control returns to its first
\* statement, the namespace stays as the first run left it
RerunCell ==
    /\ Running
    /\ nb = "classification"
    /\ pc = StmtAt(498)
    /\ runs < MaxReruns
    /\ runs' = runs + 1
    /\ pc' = StmtAt(467)
    /\ UNCHANGED <<nb, dataset, cleaned, estimators, rngPos, splitLog, status, errKind, env,
                   li, ki, fi, rngStream, clfStream, caught, raised, installs, importTries,
                   versionEvals>>

InitRerun ==
    /\ nb = "classification"
    /\ dataset = LibraryDataset(n_subjects)
    /\ pc = 1
    /\ status = "running"
    /\ errKind = "none"
    /\ env = <<>>
    /\ li = 0 /\ ki = 0 /\ fi = 0
    /\ rngStream \in 0..MaxShuffle
    /\ clfStream = 0
    /\ caught = 0 /\ raised = 0 /\ installs = 0 /\ importTries = 0 /\ versionEvals = 0
    /\ cleaned = {} /\ estimators = <<>> /\ rngPos = 0 /\ splitLog = <<>> /\ runs = 0

NextRerun ==
    \/ ExecStmt
    \/ Raise
    \/ ForNext
    \/ ForExit
    \/ RerunCell
    \/ Finish

SpecRerun == InitRerun /\ [][NextRerun]_vars

(***************************************************************************)
(* Properties.                                                             *)
(***************************************************************************)
Has(name) == name \in DOMAIN env

Intro == nb = "intro"

Classification == nb = "classification"

Done == status = "done"

InUnit(x) == x.den > 0 /\ 0 <= x.num /\ x.num <= x.den

KindOrder == <<"correlation", "partial correlation", "tangent">>

\* C1: once the summary cell has bound mean_scores, it holds exactly three
\* scores, the j-th being the mean of scores[kind] of the j-th of correlation,
\* partial correlation, tangent, each between 0 and 1; and at every moment
\* every score stored in scores[kind] is between 0 and 1.
C1_ThreeScoresInUnitInterval ==
    Classification =>
        /\ Has("scores") =>
              \A k \in DOMAIN env["scores"].items :
                 LET l == env["scores"].items[k]
                 IN  l.n > 0 => l.den > 0 /\ 0 <= l.lo /\ l.lo <= l.hi /\ l.hi <= l.den
        /\ Has("mean_scores") =>
              LET ms == env["mean_scores"].items
                  sc == env["scores"].items
              IN  /\ Len(ms) = 3
                  /\ DOMAIN sc = Range(KindOrder)
                  /\ \A j \in 1..3 :
                        /\ ms[j].num * sc[KindOrder[j]].n * sc[KindOrder[j]].den
                              = sc[KindOrder[j]].sum * ms[j].den
                        /\ InUnit(ms[j])

\* C1's case: the run is over and a mean score lies strictly between 0 and 1
C1_Witness ==
    /\ Classification /\ Done /\ Has("mean_scores")
    /\ 0 < env["mean_scores"].items[3].num
    /\ env["mean_scores"].items[3].num < env["mean_scores"].items[3].den

SquareOfRegions(name) ==
    Has(name) =>
        /\ Len(env[name].shape) = 2
        /\ env[name].shape[1] = env[name].shape[2]
        /\ Has("n_regions")
        /\ env[name].shape[1] = env["n_regions"].num
        /\ env["n_regions"].num = 39

\* C2: in the first notebook correlation_matrix and
\* corrected_correlation_matrix are square, of dimension n_regions, which is 39.
C2_SquareConnectivityMatrix ==
    Intro => SquareOfRegions("correlation_matrix")
             /\ SquareOfRegions("corrected_correlation_matrix")

\* C2's case: both matrices were computed and the notebook finished
C2_Witness ==
    Intro /\ Done /\ Has("correlation_matrix") /\ Has("corrected_correlation_matrix")

\* C3: a top-to-bottom run of the first notebook in which no library call,
\* download or file read fails reaches the end of its last code cell.
C3_IntroRunsToTheEnd ==
    [](errKind # "library") => <>(Done /\ pc = Len(IntroStmts) + 1)

\* C3's case: the last cell finished and nothing was raised on the way
C3_Witness == Intro /\ Done /\ raised = 0

\* C4: in the import cell an installation is attempted exactly when the first
\* import failed, and is followed by a second import; once the cell has
\* finished, nilearn is bound and nilearn.__version__ was evaluated.
C4_InstallOnlyOnFailedImport ==
    Intro =>
        /\ caught <= 1
        /\ caught = 0 => installs = 0 /\ importTries <= 1
        /\ caught = 1 /\ pc = 3 => installs = 0 /\ importTries = 1
        /\ caught = 1 /\ pc = 4 /\ status = "running" => installs = 1 /\ importTries = 1
        /\ caught = 1 /\ (pc > 4 \/ status = "error") => installs = 1 /\ importTries = 2
        /\ pc > 5 => Has("nilearn") /\ versionEvals = 1 /\ importTries = 1 + caught

\* C4's case: the first import failed and the cell finished all the same
C4_Witness == Intro /\ pc > 5 /\ caught = 1 /\ status = "running"

FirstImport == Intro /\ Cur.op = "try_import"

\* Names that the statements after the current one would bind.
LaterBinds == UNION {Program[k].binds : k \in (pc + 1)..Len(Program)}

\* C5: whenever a statement other than the first notebook's first import
\* raises, nothing catches it: the run stops at that statement, every name a
\* later statement would have bound is as it was, and nothing runs after it.
C5_OnlyFirstImportCaught ==
    [][/\ raised' # raised /\ ~FirstImport =>
            /\ status' = "error" /\ pc' = pc /\ caught' = caught
            /\ \A n \in LaterBinds :
                  /\ (n \in DOMAIN env') = (n \in DOMAIN env)
                  /\ n \in DOMAIN env => env'[n] = env[n]
       /\ status = "error" => status' = "error" /\ pc' = pc /\ env' = env]_vars

\* C5's case: the import after a failed installation raised and stopped the run
C5_Witness == Intro /\ status = "error" /\ pc = 4 /\ caught = 1 /\ raised = 2

\* C6: every entry of pooled_subjects, and so every p the assertion sees, has
\* shape (168, 39), the shape of the first notebook's roi_time_series; the
\* assertion never fails.
C6_EveryEntryHasShape168x39 ==
    /\ errKind # "AssertionError"
    /\ Classification /\ Has("pooled_subjects") =>
          /\ Tail(env["pooled_subjects"].shape) = <<168, 39>>
          /\ env["pooled_subjects"].items = env["adults"].items \o env["children"].items
    /\ Classification /\ Has("p") => env["p"].shape = <<168, 39>>
    /\ Intro /\ Has("roi_time_series") => env["roi_time_series"].shape = <<168, 39>>

\* C6's case: the assertion passed for all 30 entries
C6_Witness ==
    Classification /\ Running /\ Has("p") /\ Cur.op = "fit_transform" /\ li = 0
    /\ env["p"].items = <<n_subjects>>

ChildrenIn(S) == {i \in S : env["groups"].items[i] = "child"}

\* C7: every split has 5 test and 25 training participants, disjoint and
\* covering all 30, with 4 children and 1 adult in the test set (the
\* proportion 24 : 6 of the data), and each kind gets 15 splits.
C7_StratifiedSplits ==
    Classification =>
        /\ fi <= 15 /\ ki <= 3
        /\ Has("test") =>
              LET tr == env["train"].items
                  te == env["test"].items
              IN  /\ Cardinality(te) = 5
                  /\ Cardinality(tr) = 25
                  /\ tr \cap te = {}
                  /\ tr \cup te = 1..30
                  /\ Cardinality(ChildrenIn(te)) = 4
                  /\ Cardinality(te \ ChildrenIn(te)) = 1
                  /\ Cardinality(ChildrenIn(1..30)) = 24
                  /\ Cardinality(ChildrenIn(te)) * 30 = 5 * Cardinality(ChildrenIn(1..30))
        /\ Running /\ Cur.op = "for_kind" /\ ki > 0 =>
              env["scores"].items[env["kind"].items[1]].n = 15

\* C7's case: the 15th split of the third kind
C7_Witness == Classification /\ Has("test") /\ ki = 3 /\ fi = 15

StageOf(name) == env[name].stage

\* C8: whenever a pipeline step is about to run, what it consumes was produced
\* by the step before it: a masker is fitted on a fetched atlas, transform runs
\* on a fitted masker and fetched data, fit_transform on time series, and the
\* plots and the classifier on matrices.
C8_PipelineOrder ==
    Running =>
        /\ Cur.op = "masker_fit" => NameOK(Cur) /\ StageOf(Cur.args[1]) = "fetched"
        /\ Cur.op = "transform" =>
              /\ NameOK(Cur)
              /\ StageOf(Cur.args[1]) = "fitted"
              /\ \A k \in 2..Len(Cur.args) : StageOf(Cur.args[k]) = "fetched"
        /\ Cur.op = "fit_transform" => NameOK(Cur) /\ StageOf(Cur.args[2]) = "timeseries"
        /\ Cur.op \in {"fill_diagonal", "plot_matrix", "view_connectome", "mean_", "clf_fit"}
              => NameOK(Cur) /\ StageOf(Cur.args[1]) = "matrix"
        /\ Cur.op = "predict" =>
              /\ NameOK(Cur)
              /\ StageOf(Cur.args[2]) = "matrix"
              /\ StageOf(Cur.args[3]) = "timeseries"

\* C8's case: the last prediction of the classification notebook is about to run
C8_Witness == Classification /\ Running /\ Cur.op = "predict" /\ ki = 3 /\ fi = 15

MajorityIn(S) ==
    LET y == env["classes"].items
    IN  Max(Cardinality({i \in S : y[i] = 0}), Cardinality({i \in S : y[i] = 1}))

\* C9: the red line's 0.8 is the accuracy of always predicting the majority
\* class, over all 30 participants (24 / 30) and over every test set (4 / 5).
C9_ChanceLevel ==
    Classification /\ Has("classes") =>
        /\ Len(env["classes"].items) = 30
        /\ MajorityIn(1..30) = 24
        /\ ChanceLevel.num * 30 = ChanceLevel.den * MajorityIn(1..30)
        /\ Has("test") =>
              /\ Cardinality(env["test"].items) = 5
              /\ MajorityIn(env["test"].items) = 4
              /\ ChanceLevel.num * 5 = ChanceLevel.den * MajorityIn(env["test"].items)

\* C9's case: the line is drawn after all the folds were split
C9_Witness == Classification /\ Done /\ Has("test") /\ Has("mean_scores")

StackOfChildren(name) ==
    Has(name) => env[name].shape = <<Len(env["children"].items), 39, 39>>
                 /\ Len(env["children"].items) = 24

\* C10: the three measures fitted on children each return a (24, 39, 39) stack,
\* one matrix per child, and correlation_measure.mean_ is one (39, 39) matrix.
C10_StackedMatrices ==
    Classification =>
        /\ StackOfChildren("correlation_matrices")
        /\ StackOfChildren("partial_correlation_matrices")
        /\ StackOfChildren("tangent_matrices")
        /\ Has("mean_correlation_matrix") =>
              env["mean_correlation_matrix"].shape = <<39, 39>>

\* C10's case: all three stacks and the mean were computed
C10_Witness ==
    Classification /\ Has("tangent_matrices") /\ Has("partial_correlation_matrices")
    /\ Has("mean_correlation_matrix")

\* the code np.unique gives a label: its index among the sorted distinct labels
ClassOf(l) ==
    Cardinality({LabelRank(m) : m \in {x \in Range(dataset.labels) :
                                        LabelRank(x) < LabelRank(l)}})

\* classes[i] is the age group of the participant behind pooled_subjects[i]
LabelsAligned ==
    \A i \in 1..Len(env["pooled_subjects"].items) :
        env["classes"].items[i] = ClassOf(dataset.labels[env["pooled_subjects"].items[i]])

\* the table lists every adult before every child
AdultsFirst ==
    \A i \in 1..Len(dataset.labels) : \A j \in i..Len(dataset.labels) :
        ~(dataset.labels[i] = "child" /\ dataset.labels[j] = "adult")

\* every Child_Adult value is 'child' or 'adult'
TwoGroupsOnly == Range(dataset.labels) \subseteq {"adult", "child"}

\* a list of files is in the table's row order
InRowOrder(column) == \A j \in 1..Len(column) : column[j] = j

\* every scan given to the masker came with its own participant's confounds
CleanedWithOwnConfounds == \A pair \in cleaned : pair[1] = pair[2]

\* C11 as stated: whatever the table's row order, classes[i] is the age group
\* of the participant whose time series is pooled_subjects[i] (taken here only
\* for tables of 'child' and 'adult' whose scans are in row order, the cases
\* most favourable to the statement).
C11_AlignedWhateverOrder ==
    Has("pooled_subjects") /\ Has("classes") /\ TwoGroupsOnly /\ InRowOrder(dataset.func)
        => LabelsAligned

\* C11 amended: with only 'child' and 'adult' in the table and func in row
\* order, classes[i] is the age group of the participant behind
\* pooled_subjects[i] for every i exactly when the table lists every adult
\* before every child.
C11_AlignedIffAdultsFirst ==
    Has("pooled_subjects") /\ Has("classes") /\ TwoGroupsOnly /\ InRowOrder(dataset.func)
        => (LabelsAligned <=> AdultsFirst)

\* C11's case: the table lists children first, and the labels are bound next to
\* a pooled list whose entries they do not describe
C11_Witness ==
    /\ Has("pooled_subjects") /\ Has("classes") /\ TwoGroupsOnly
    /\ InRowOrder(dataset.func)
    /\ ~AdultsFirst /\ ~LabelsAligned
    /\ Running /\ Cur.op = "predict"

OfThisFold(name) ==
    /\ name \in DOMAIN estimators
    /\ estimators[name].kind = ki
    /\ estimators[name].fold = fi
    /\ estimators[name].run = runs

\* C13: inside the cross-validation loop every fit is given the fold's training
\* indices and an estimator constructed in that fold; the prediction uses the
\* measure and the classifier constructed and fitted in that fold, on the
\* fold's training indices, which hold no test subject, and is given the test
\* subjects.
C13_FitOnTrainOnly ==
    Classification /\ Running /\ ki > 0 /\ fi > 0 =>
        /\ Cur.op \in {"fit_transform", "clf_fit"} =>
              /\ FitIndices(Cur, env) = env["train"].items
              /\ FitIndices(Cur, env) \cap env["test"].items = {}
              /\ OfThisFold("connectivity")
              /\ estimators["connectivity"].fitted \subseteq env["train"].items
        /\ Cur.op = "predict" =>
              /\ OfThisFold("connectivity") /\ OfThisFold("classifier")
              /\ estimators["connectivity"].fitted = env["train"].items
              /\ estimators["classifier"].fitted = env["train"].items
              /\ estimators["connectivity"].fitted \cap env["test"].items = {}
              /\ Cur.args[4] = "test"
        /\ Cur.op = "append_score" => OfThisFold("connectivity") /\ OfThisFold("classifier")

\* C13's case: a prediction in a fold that is neither the first of its kind
\* nor of the first kind, with estimators of earlier folds replaced
C13_Witness ==
    /\ Classification /\ Running /\ Cur.op = "predict" /\ ki = 2 /\ fi = 7
    /\ estimators["classifier"].fitted = env["train"].items
    /\ Cardinality(env["test"].items) = test_size

\* the rows of the table whose value is neither 'child' nor 'adult'
ForeignRows == {i \in 1..Len(dataset.labels) : dataset.labels[i] \notin {"adult", "child"}}

\* the length of the list bound to a name
LenOf(name) == Head(env[name].shape)

\* C14: pooled_subjects is the adults' time series followed by the children's,
\* its length is len(adults) + len(children); classes has one entry per fetched
\* participant, 30; the two lengths are equal when every Child_Adult value is
\* 'child' or 'adult', and pooled_subjects is shorter by the rows with another
\* value, which are in neither group.
C14_PooledLength ==
    /\ Has("pooled_subjects") =>
          /\ env["pooled_subjects"].items = env["adults"].items \o env["children"].items
          /\ LenOf("pooled_subjects") = LenOf("adults") + LenOf("children")
          /\ LenOf("pooled_subjects") = Len(env["pooled_subjects"].items)
          /\ LenOf("pooled_subjects") = n_subjects - Cardinality(ForeignRows)
          /\ \A r \in ForeignRows :
                r \notin Range(env["child_idx"].items) \cup Range(env["adult_idx"].items)
    /\ Has("pooled_subjects") /\ Has("classes") =>
          /\ Len(env["classes"].items) = 30
          /\ Len(env["classes"].items) = LenOf("development_dataset")
          /\ TwoGroupsOnly => LenOf("pooled_subjects") = Len(env["classes"].items)
          /\ ~TwoGroupsOnly => LenOf("pooled_subjects") < Len(env["classes"].items)

\* C14's case: a table with a value that is neither 'child' nor 'adult': 29
\* pooled time series next to 30 labels, and cv.split refuses them
C14_Witness ==
    /\ ~TwoGroupsOnly /\ Has("pooled_subjects") /\ Has("classes")
    /\ LenOf("pooled_subjects") = 29 /\ Len(env["classes"].items) = 30
    /\ status = "error" /\ Cur.op = "for_fold"

\* C15: the n-th (train, test) pair of every call of cv.split, for each of the
\* three kinds and in a second run of the cell, is the n-th pair of the first
\* call; each call yields 15 pairs.
C15_SameSplitsForEveryKind ==
    /\ Len(splitLog) <= n_splits
    /\ Classification /\ fi > 0 =>
          /\ fi <= Len(splitLog)
          /\ splitLog[fi].train = env["train"].items
          /\ splitLog[fi].test = env["test"].items
    /\ Classification /\ ki > 1 => Len(splitLog) = n_splits
    /\ Classification /\ runs > 0 => Len(splitLog) = n_splits

\* C15's case: the last split of the third kind in the second run of the cell,
\* equal to the 15th split of the first call and different from the 14th
C15_Witness ==
    /\ Classification /\ runs = 1 /\ ki = 3 /\ fi = n_splits
    /\ Running /\ Cur.op = "predict"
    /\ splitLog[fi].test = env["test"].items
    /\ splitLog[fi - 1].test # env["test"].items

\* the two loops of the cross-validation cell
TwoLoops == {"for_kind", "for_fold"}

\* a step is straight-line, or belongs to one of the given statements: it is
\* taken by such a statement or returns to one
StraightLineBut(ops) ==
    \/ pc' = pc
    \/ pc' = pc + 1
    \/ Cur.op \in ops
    \/ Program[pc'].op \in ops

\* C16 as stated: every step of either notebook goes to the next statement, or
\* is a step of the loop over the kinds or of the loop over the folds.
C16_OnlyTwoLoops == [][StraightLineBut(TwoLoops)]_vars

\* the for statements of the second notebook, by source line
ForLines == {173, 249, 318, 404, 468, 470}

\* C16 amended: every step goes to the next statement, or is a step of the
\* try/except around the first import or of one of six for-loops, all in the
\* second notebook: over pooled_subjects (line 173, 30 passes), over the first
\* three matrices of a kind (lines 249, 318, 404, 3 passes each), over the
\* three kinds (line 468) and, inside it, over the 15 folds (line 470).
C16_SixLoopsAndOneTry ==
    /\ [][StraightLineBut(ForOps \cup {"try_import"})]_vars
    /\ [](Running /\ Cur.op \in ForOps => Classification /\ Cur.line \in ForLines)
    /\ [](Running /\ Cur.op = "try_import" => Intro /\ pc = 2)
    /\ [](Classification /\ Running /\ Cur.line = 198 =>
              Has("p") /\ env["p"].items = <<env["pooled_subjects"].items[n_subjects]>>)
    /\ [](Classification /\ Running /\ Cur.op = "plot_matrix" => li \in 1..NAxes)
    /\ [](Classification /\ Running /\ Cur.line = 498 =>
              \A k \in Range(KindOrder) : env["scores"].items[k].n = n_splits)

\* C16's case: the third pass of the plotting loop of line 404, a loop that is
\* neither the one over the kinds nor the one over the folds
C16_Witness ==
    Classification /\ Running /\ Cur.op = "plot_matrix" /\ Cur.line = 405 /\ li = NAxes

\* an exception ends the run where it is raised
NoHandler == raised' # raised => status' = "error" /\ pc' = pc

\* a statement that is not a for statement has one continuation
OnePath == status' = "running" /\ pc' # pc /\ Cur.op \notin ForOps => pc' = NextPc(Cur)

\* the two paths of the import cell: past the except body, or into it
TwoPathsOfImport ==
    /\ raised' = raised => pc' = Cur.jump /\ caught' = caught
    /\ raised' # raised => pc' = pc + 1 /\ caught' = caught + 1 /\ status' = "running"

\* C17 as stated: no statement of either notebook handles an error or chooses
\* between two paths: whatever is raised ends the run, and a statement that
\* is not a for statement has one continuation.
C17_NoBranchNoHandler == [][NoHandler /\ OnePath]_vars

\* C17 amended: the same of every statement but the first import of the first
\* notebook, which continues past the except body when it succeeds and into
\* it (install, import again) when it raises; the assertion of the second
\* notebook, which could raise, never does.
C17_OneHandlerOnly ==
    /\ [][(NoHandler /\ OnePath) \/ (FirstImport /\ TwoPathsOfImport)]_vars
    /\ [](Running /\ Cur.op = "assert_shape" => NameOK(Cur) /\ ~MustFail(Cur, env))

\* C17's case: the first import raised and the except body is about to run
C17_Witness == Intro /\ status = "running" /\ pc = 3 /\ caught = 1 /\ installs = 0

\* C18: in a run from a fresh kernel every statement that is reached finds
\* every name it reads bound by an earlier statement of its own notebook: no
\* run of either notebook ends in a NameError.
C18_EveryNameBoundEarlier ==
    /\ errKind # "NameError"
    /\ status # "done" /\ pc <= Len(Program) => NameOK(Cur)
    /\ pc = 1 => env = <<>>

\* C18's case: the second notebook ran to its end from a fresh kernel
C18_Witness == Classification /\ Done /\ raised = 0 /\ Has("scores_std") /\ ~Has("pd")

====
